---- MODULE Spec2Model ----
(***************************************************************************)
(* Model of CueSplitter.py: split_cue (plan loop, worker pool, deferred    *)
(* WAV tagging, verdict), _write_wav_riff (RIFF LIST/INFO rewrite) and     *)
(* msf2seconds.                                                            *)
(*                                                                         *)
(* Text is a sequence of code points, bytes are sequences of 0..255.       *)
(* An optional value is a sequence of length <= 1: None is <<>>, a present *)
(* value x is <<x>>.                                                       *)
(***************************************************************************)
EXTENDS Integers, Sequences, FiniteSets, TLC

\* ------------------------------------------------------------------ bounds
MaxTracks == 2
MaxJobs == 2
MaxChunks == 2
MaxCalls == 2
MaxMinutes == 1
MaxDigits == 3

\* ------------------------------------------------------- optional values
None == <<>>
Some(x) == <<x>>
Val(o) == o[1]

\* Python truthiness of an optional text: None and "" are false.
Truthy(o) == o # None /\ Val(o) # <<>>

\* `a or b` on optional texts.
OrElse(a, b) == IF Truthy(a) THEN a ELSE b

\* ------------------------------------------------------------ text helpers
RECURSIVE StrNat(_)
StrNat(n) == IF n < 10 THEN <<48 + n>> ELSE StrNat(n \div 10) \o <<48 + (n % 10)>>

\* str(n) for an int
Str(n) == IF n < 0 THEN <<45>> \o StrNat(0 - n) ELSE StrNat(n)

\* f"{n:02d}": sign-aware zero padding to a total width of 2
Fmt02d(n) ==
    IF n < 0 THEN Str(n)
    ELSE IF n < 10 THEN <<48>> \o StrNat(n) ELSE StrNat(n)

\* index of the last "." of a file name, 0 when there is none or it leads
LastDot(s) ==
    LET idx == {p \in 1..Len(s) : s[p] = 46}
    IN IF idx = {} THEN 0 ELSE CHOOSE p \in idx : \A q \in idx : q <= p

\* path.splitext(path.basename(p))[0] for a separator-free name
Stem(s) == IF LastDot(s) <= 1 THEN s ELSE SubSeq(s, 1, LastDot(s) - 1)

\* path.join(a, b) for a relative b
PathJoin(a, b) ==
    IF a = <<>> THEN b
    ELSE IF a[Len(a)] = 47 THEN a \o b ELSE a \o <<47>> \o b

Ext(fmt) ==
    CASE fmt = "wav" -> <<119, 97, 118>>
      [] fmt = "mp3" -> <<109, 112, 51>>
      [] fmt = "flac" -> <<102, 108, 97, 99>>

Unknown == <<85, 110, 107, 110, 111, 119, 110>>

\* ------------------------------------------------------------ input domains
Formats == {"wav", "mp3", "flac"}

ImgWav == <<105, 46, 119, 97, 118>>        \* "i.wav", exists
AllWav == <<97, 46, 119, 97, 118>>         \* "a.wav", exists
GoneWav == <<103, 46, 119, 97, 118>>       \* "g.wav", does not exist
ExistingFiles == {ImgWav, AllWav}

output_dir == <<46>>                        \* "."
CueDir == <<>>                              \* path.dirname(cue_file)

\* Tracks as the cue parser hands them over.
TrackPool ==
    { [track_number |-> 1, start |-> Some(<<0, 0, 0>>), filename |-> Some(ImgWav),
       title |-> Some(<<65>>), performer |-> Some(<<81>>)],
      [track_number |-> 2, start |-> Some(<<3, 10, 37>>), filename |-> Some(ImgWav),
       title |-> None, performer |-> None],
      [track_number |-> 2, start |-> None, filename |-> Some(ImgWav),
       title |-> Some(<<66>>), performer |-> None],
      [track_number |-> 3, start |-> Some(<<5, 0, 0>>), filename |-> None,
       title |-> Some(<<67>>), performer |-> None],
      [track_number |-> 3, start |-> Some(<<5, 0, 0>>), filename |-> Some(GoneWav),
       title |-> Some(<<67>>), performer |-> None] }

RECURSIVE SeqsUpTo(_, _)
SeqsUpTo(S, n) ==
    IF n = 0 THEN {<<>>}
    ELSE LET R == SeqsUpTo(S, n - 1)
         IN R \cup {Append(s, x) : s \in {r \in R : Len(r) = n - 1}, x \in S}

DiscTexts ==
    { [performer |-> None, title |-> None, date |-> None],
      [performer |-> Some(<<80>>), title |-> Some(<<76>>), date |-> Some(<<49, 57, 57, 57>>)] }

Offsets == {0, 1, 0 - 2}
AudioFiles == {None, Some(AllWav)}
DiscOptions == {<<FALSE, None>>, <<TRUE, Some(2)>>}

VARIABLES
    format, no_metadata, jobs, track_offset, audio_file, write_disc, disc_number,
    cd,            \* [cdtext: disc texts, tracks: sequence of tracks]
    pc,            \* position of split_cue
    i,             \* loop index of the plan loop (0-based, next track)
    futures,       \* one record per submitted job
    tr_cmds,       \* the command of each submitted job
    pending_wav,   \* retained (future, path, tags) tuples
    k,             \* position of the deferred pass (1-based, next tuple)
    tag_steps,     \* history of deferred tag steps
    log,           \* traceback.print_exc() output
    ret,           \* how split_cue ended
    \* ---- one _write_wav_riff call on one file
    disk,          \* bytes of the file at wav_path
    tmp,           \* the file at wav_path + ".meta.tmp": None or its bytes
    tags,          \* arguments of the call: title, artist, album, track, disc, cue_encoding
    rpc,           \* position of _write_wav_riff
    before,        \* bytes of the file when the call began
    calls,         \* number of calls begun
    outs,          \* history: the bytes each completed rewrite left at wav_path
    \* ---- msf2seconds on successive frame positions
    msf,           \* the argument: <<minutes, seconds, frames>>
    ndigits,       \* the argument ndigits
    secs,          \* None or the result, in units of 10^-ndigits seconds
    last_secs      \* None or the result for the frame position before msf

riffVars == <<disk, tmp, tags, rpc, before, calls, outs>>

timeVars == <<msf, ndigits, secs, last_secs>>

vars == <<format, no_metadata, jobs, track_offset, audio_file, write_disc, disc_number,
          cd, pc, i, futures, tr_cmds, pending_wav, k, tag_steps, log, ret, riffVars,
          timeVars>>

args == <<format, no_metadata, jobs, track_offset, audio_file, write_disc, disc_number, cd>>

\* ------------------------------------------------------------ split_cue: plan
\* _add_metadata: append "-metadata k=v" unless v is None
_add_metadata(cmd, key, v) == IF v = None THEN cmd ELSE Append(cmd, <<key, Val(v)>>)

\* an int argument of _add_metadata, formatted by the f-string
IntArg(n) == Some(Str(n))

\* album-level metadata arguments of the shared cmd (lines 151-157)
BaseMetadata ==
    IF format # "wav" /\ ~no_metadata
    THEN LET c1 == _add_metadata(<<>>, "album_artist", cd.cdtext.performer)
             c2 == _add_metadata(c1, "album", cd.cdtext.title)
             c3 == _add_metadata(c2, "date", cd.cdtext.date)
         IN IF write_disc /\ disc_number # None
            THEN _add_metadata(c3, "disc", IntArg(Val(disc_number)))
            ELSE c3
    ELSE <<>>

\* variant: the width-1 rule applied only when the deferred tagging is on
PoolWidth_OnlyWhenTagging == IF format = "wav" /\ ~no_metadata THEN 1 ELSE jobs

\* max_workers of the pool (line 159)
PoolWidth == IF format = "wav" THEN 1 ELSE jobs

\* the error of the plan loop for track tr, "" when there is none (lines 165-178)
PlanFault(tr) ==
    IF tr.start = None THEN "ValueError"
    ELSE IF audio_file # None
         THEN (IF Val(audio_file) \in ExistingFiles THEN "" ELSE "FileNotFoundError")
    ELSE IF tr.filename # None
         THEN (IF PathJoin(CueDir, Val(tr.filename)) \in ExistingFiles THEN "" ELSE "FileNotFoundError")
    ELSE "FileNotFoundError"

input_file(tr) ==
    IF audio_file # None THEN Val(audio_file) ELSE PathJoin(CueDir, Val(tr.filename))

\* variant: the file name carries the raw track number
display_track_NoOffset(tr) == tr.track_number

\* md_track, display_track and applied_track are the same expression (lines 193, 204, 223)
md_track(tr) == tr.track_number + track_offset
display_track(tr) == tr.track_number + track_offset
applied_track(tr) == tr.track_number + track_offset

\* variant: the per-track arguments are attached for wav too
TrackMetadata_AnyFormat(tr) ==
    IF ~no_metadata
    THEN LET c1 == _add_metadata(BaseMetadata, "title", tr.title)
             c2 == _add_metadata(c1, "artist", OrElse(tr.performer, cd.cdtext.performer))
         IN _add_metadata(c2, "track", IntArg(md_track(tr)))
    ELSE BaseMetadata

\* per-track metadata arguments (lines 187-200)
TrackMetadata(tr) ==
    IF format # "wav" /\ ~no_metadata
    THEN LET c1 == _add_metadata(BaseMetadata, "title", tr.title)
             c2 == _add_metadata(c1, "artist", OrElse(tr.performer, cd.cdtext.performer))
             c3 == _add_metadata(c2, "track", IntArg(md_track(tr)))
         IN IF write_disc /\ disc_number # None
            THEN _add_metadata(c3, "disc", IntArg(Val(disc_number)))
            ELSE c3
    ELSE BaseMetadata

\* lines 208-213
output_path(tr) ==
    PathJoin(output_dir,
        IF no_metadata
        THEN Stem(input_file(tr)) \o <<95>> \o Fmt02d(display_track(tr)) \o <<46>> \o Ext(format)
        ELSE Fmt02d(display_track(tr)) \o <<32, 45, 32>>
             \o Val(OrElse(tr.title, Some(Unknown))) \o <<46>> \o Ext(format))

tr_cmd(tr) ==
    [input |-> input_file(tr), codec |-> format, start |-> Val(tr.start),
     metadata |-> TrackMetadata(tr), output |-> output_path(tr)]

\* the tuple appended to pending_wav (line 226)
PendingEntry(tr, fut) ==
    [fut |-> fut, out_path |-> output_path(tr), artist |-> cd.cdtext.performer,
     album |-> cd.cdtext.title, title |-> tr.title, track |-> Some(applied_track(tr)),
     disc |-> IF write_disc THEN disc_number ELSE None]

NoRc == 0 - 1
NewFuture == [state |-> "Queued", returncode |-> NoRc, exception |-> FALSE]

TypeOK ==
    /\ format \in Formats
    /\ no_metadata \in BOOLEAN
    /\ jobs \in 1..MaxJobs
    /\ pc \in {"loop", "shutdown", "tagging", "return", "done", "raised"}
    /\ i \in 0..Len(cd.tracks)
    /\ Len(futures) = Len(tr_cmds)
    /\ ret \in {"running", "True", "False", "ValueError", "FileNotFoundError", "JobException"}

Init ==
    /\ format \in Formats
    /\ no_metadata \in BOOLEAN
    /\ jobs \in 1..MaxJobs
    /\ track_offset \in Offsets
    /\ audio_file \in AudioFiles
    /\ \E d \in DiscOptions : write_disc = d[1] /\ disc_number = d[2]
    /\ cd \in [cdtext : DiscTexts, tracks : SeqsUpTo(TrackPool, MaxTracks)]
    /\ pc = "loop"
    /\ i = 0
    /\ futures = <<>>
    /\ tr_cmds = <<>>
    /\ pending_wav = <<>>
    /\ k = 1
    /\ tag_steps = <<>>
    /\ log = <<>>
    /\ ret = "running"
    /\ disk = <<>>
    /\ tmp = None
    /\ tags = <<>>
    /\ rpc = "idle"
    /\ before = <<>>
    /\ calls = 0
    /\ outs = <<>>
    /\ msf = <<0, 0, 0>>
    /\ ndigits = 2
    /\ secs = None
    /\ last_secs = None

\* one iteration of the plan loop that raises (lines 165-178)
PlanRaise ==
    /\ pc = "loop"
    /\ i < Len(cd.tracks)
    /\ PlanFault(cd.tracks[i + 1]) # ""
    /\ pc' = "raised"
    /\ ret' = PlanFault(cd.tracks[i + 1])
    /\ UNCHANGED <<timeVars, riffVars, args, i, futures, tr_cmds, pending_wav, k, tag_steps, log>>

\* one iteration of the plan loop that submits the track's job (lines 163-226)
Submit ==
    /\ pc = "loop"
    /\ i < Len(cd.tracks)
    /\ PlanFault(cd.tracks[i + 1]) = ""
    /\ LET tr == cd.tracks[i + 1]
       IN /\ futures' = Append(futures, NewFuture)
          /\ tr_cmds' = Append(tr_cmds, tr_cmd(tr))
          /\ pending_wav' =
                IF format = "wav" /\ ~no_metadata
                THEN Append(pending_wav, PendingEntry(tr, Len(futures) + 1))
                ELSE pending_wav
    /\ i' = i + 1
    /\ UNCHANGED <<timeVars, riffVars, args, pc, k, tag_steps, log, ret>>

\* the plan loop is exhausted; split_cue calls jobs_pool.shutdown (line 227)
LoopExit ==
    /\ pc = "loop"
    /\ i = Len(cd.tracks)
    /\ pc' = "shutdown"
    /\ UNCHANGED <<timeVars, riffVars, args, i, futures, tr_cmds, pending_wav, k, tag_steps, log, ret>>

\* ------------------------------------------------------ split_cue: worker pool
Unresolved(f) == f.state \in {"Queued", "Running"}
RunningCount == Cardinality({j \in 1..Len(futures) : futures[j].state = "Running"})

\* variant: a failed job keeps the queued ones from starting
StartJob_StopOnFailure(j) ==
    /\ j \in 1..Len(futures)
    /\ futures[j].state = "Queued"
    /\ \A h \in 1..Len(futures) : futures[h].state # "Failed"
    /\ \A h \in 1..(j - 1) : futures[h].state # "Queued"
    /\ RunningCount < PoolWidth
    /\ futures' = [futures EXCEPT ![j].state = "Running"]
    /\ UNCHANGED <<timeVars, riffVars, args, pc, i, tr_cmds, pending_wav, k, tag_steps, log, ret>>

\* a pool worker takes the oldest queued work item (FIFO work queue)
StartJob(j) ==
    /\ j \in 1..Len(futures)
    /\ futures[j].state = "Queued"
    /\ \A h \in 1..(j - 1) : futures[h].state # "Queued"
    /\ RunningCount < PoolWidth
    /\ futures' = [futures EXCEPT ![j].state = "Running"]
    /\ UNCHANGED <<timeVars, riffVars, args, pc, i, tr_cmds, pending_wav, k, tag_steps, log, ret>>

\* what _ffmpeg_run can do: return 0, return non-zero, or raise (lines 25-33)
Outcomes ==
    { [state |-> "Succeeded", returncode |-> 0, exception |-> FALSE],
      [state |-> "Failed", returncode |-> 1, exception |-> FALSE],
      [state |-> "Failed", returncode |-> NoRc, exception |-> TRUE] }

\* _ffmpeg_run of job j ends and the future is resolved
FinishJob(j, o) ==
    /\ j \in 1..Len(futures)
    /\ futures[j].state = "Running"
    /\ o \in Outcomes
    /\ futures' = [futures EXCEPT ![j] = o]
    /\ UNCHANGED <<timeVars, riffVars, args, pc, i, tr_cmds, pending_wav, k, tag_steps, log, ret>>

\* variant: shutdown(wait=False)
ShutdownGuard_NoWait == TRUE

\* jobs_pool.shutdown(wait=True) returns (line 227)
ShutdownGuard == \A j \in 1..Len(futures) : ~Unresolved(futures[j])

Shutdown ==
    /\ pc = "shutdown"
    /\ ShutdownGuard
    /\ pc' = "tagging"
    /\ UNCHANGED <<timeVars, riffVars, args, i, futures, tr_cmds, pending_wav, k, tag_steps, log, ret>>

\* ------------------------------------------------------ split_cue: deferred pass
\* the early return of _write_wav_riff (line 52)
RiffShortCircuit(title, artist, album) == ~(Truthy(title) \/ Truthy(artist) \/ Truthy(album))

\* frames added to the ID3 chunk (lines 242-251)
Id3Frames(e) ==
    LET f1 == IF e.title # None THEN <<<<"TIT2", Val(e.title)>>>> ELSE <<>>
        f2 == IF e.artist # None THEN <<<<"TPE1", Val(e.artist)>>>> ELSE <<>>
        f3 == IF e.album # None THEN <<<<"TALB", Val(e.album)>>>> ELSE <<>>
        f4 == IF e.track # None THEN <<<<"TRCK", Str(Val(e.track))>>>> ELSE <<>>
        f5 == IF e.disc # None THEN <<<<"TPOS", Str(Val(e.disc))>>>> ELSE <<>>
    IN f1 \o f2 \o f3 \o f4 \o f5

\* variant: the exit status is not looked at
TagGuard_Always(fut) == TRUE

\* does the pass tag this entry (line 232); a raising result() is handled apart
TagGuard(fut) == fut.returncode = 0

\* fut.result() raises in the deferred pass: the outer except logs it (lines 256-258)
TagSkipRaised ==
    /\ pc = "tagging"
    /\ k <= Len(pending_wav)
    /\ futures[pending_wav[k].fut].exception
    /\ log' = Append(log, [at |-> "result", job |-> pending_wav[k].fut])
    /\ k' = k + 1
    /\ UNCHANGED <<timeVars, riffVars, args, pc, i, futures, tr_cmds, pending_wav, tag_steps, ret>>

\* fut.result() is not 0: nothing is done for the entry (line 232)
TagSkipFailed ==
    /\ pc = "tagging"
    /\ k <= Len(pending_wav)
    /\ ~futures[pending_wav[k].fut].exception
    /\ ~TagGuard(futures[pending_wav[k].fut])
    /\ k' = k + 1
    /\ UNCHANGED <<timeVars, riffVars, args, pc, i, futures, tr_cmds, pending_wav, tag_steps, log, ret>>

\* variant: no inner try/except, the tagging error leaves split_cue
AfterTagRaise_Propagate(e) ==
    /\ pc' = "raised"
    /\ ret' = "TagError"
    /\ UNCHANGED <<log, k>>

\* after a tag step that raised: the inner except logs and the pass goes on (lines 253-255)
AfterTagRaise(e) ==
    /\ log' = Append(log, [at |-> "tag", job |-> e.fut])
    /\ k' = k + 1
    /\ UNCHANGED <<pc, ret>>

\* the tag step of one entry (lines 232-255): _write_wav_riff, then the ID3 write.
\* riff_ok and id3_ok are what the file system and the tag library answer.
TagStep(riff_ok, id3_ok) ==
    /\ pc = "tagging"
    /\ k <= Len(pending_wav)
    /\ ~futures[pending_wav[k].fut].exception
    /\ TagGuard(futures[pending_wav[k].fut])
    /\ LET e == pending_wav[k]
           short == RiffShortCircuit(e.title, e.artist, e.album)
           riff == IF short THEN "returned" ELSE IF riff_ok THEN "written" ELSE "raised"
           id3 == IF riff = "raised" THEN "not_reached" ELSE IF id3_ok THEN "saved" ELSE "raised"
       IN /\ short => riff_ok
          /\ riff = "raised" => id3_ok
          /\ tag_steps' = Append(tag_steps,
                [job |-> e.fut, path |-> e.out_path, riff |-> riff, id3 |-> id3,
                 title |-> e.title, artist |-> e.artist, album |-> e.album,
                 track |-> e.track, disc |-> e.disc, frames |-> Id3Frames(e)])
          /\ IF riff = "raised" \/ id3 = "raised"
             THEN AfterTagRaise(e)
             ELSE /\ k' = k + 1
                  /\ UNCHANGED <<pc, ret, log>>
    /\ UNCHANGED <<timeVars, riffVars, args, i, futures, tr_cmds, pending_wav>>

PassExit ==
    /\ pc = "tagging"
    /\ k > Len(pending_wav)
    /\ pc' = "return"
    /\ UNCHANGED <<timeVars, riffVars, args, i, futures, tr_cmds, pending_wav, k, tag_steps, log, ret>>

\* ------------------------------------------------------ split_cue: verdict
\* all(f.result() == 0 for f in futures): left to right, stops at the first
\* non-zero result, and f.result() re-raises what the job raised (line 259)
RECURSIVE AllResult(_)
AllResult(fs) ==
    IF fs = <<>> THEN "True"
    ELSE IF Head(fs).exception THEN "JobException"
    ELSE IF Head(fs).returncode # 0 THEN "False"
    ELSE AllResult(Tail(fs))

Return ==
    /\ pc = "return"
    /\ ret' = AllResult(futures)
    /\ pc' = IF AllResult(futures) = "JobException" THEN "raised" ELSE "done"
    /\ UNCHANGED <<timeVars, riffVars, args, i, futures, tr_cmds, pending_wav, k, tag_steps, log>>

Next ==
    \/ PlanRaise
    \/ Submit
    \/ LoopExit
    \/ \E j \in 1..Len(futures) : StartJob(j)
    \/ \E j \in 1..Len(futures), o \in Outcomes : FinishJob(j, o)
    \/ Shutdown
    \/ TagSkipRaised
    \/ TagSkipFailed
    \/ \E riff_ok \in BOOLEAN, id3_ok \in BOOLEAN : TagStep(riff_ok, id3_ok)
    \/ PassExit
    \/ Return

Spec == Init /\ [][Next]_vars

\* the code's scheduling: the main thread keeps running, pool workers keep
\* taking work, and every external encode invocation terminates
MainStep ==
    \/ PlanRaise \/ Submit \/ LoopExit \/ Shutdown \/ TagSkipRaised \/ TagSkipFailed
    \/ (\E riff_ok \in BOOLEAN, id3_ok \in BOOLEAN : TagStep(riff_ok, id3_ok))
    \/ PassExit \/ Return

\* the options that no guard of the scheduling reads are left at their defaults
FairInit ==
    /\ Init
    /\ track_offset = 0
    /\ audio_file = None
    /\ write_disc = FALSE

FairSpec ==
    /\ FairInit
    /\ [][Next]_vars
    /\ WF_vars(MainStep)
    /\ \A j \in 1..MaxTracks : WF_vars(StartJob(j))
    /\ \A j \in 1..MaxTracks : WF_vars(\E o \in Outcomes : FinishJob(j, o))

\* ================================================================ _write_wav_riff
Min(a, b) == IF a < b THEN a ELSE b

\* Python slice d[a:b] on 0-based offsets, clamped to the buffer
Slice(d, a, b) == IF a >= Min(b, Len(d)) THEN <<>> ELSE SubSeq(d, a + 1, Min(b, Len(d)))

RECURSIVE Concat(_)
Concat(ss) == IF ss = <<>> THEN <<>> ELSE Head(ss) \o Concat(Tail(ss))

\* struct.pack("<I", n) and struct.unpack("<I", b)[0]
pack_I(n) == <<n % 256, (n \div 256) % 256, (n \div 65536) % 256, (n \div 16777216) % 256>>
unpack_I(b) == b[1] + 256 * b[2] + 65536 * b[3] + 16777216 * b[4]

\* str.encode: utf-8 takes two bytes above U+007F, latin-1 and ascii one
RECURSIVE Encode(_, _)
Encode(text, enc) ==
    IF text = <<>> THEN <<>>
    ELSE LET c == Head(text)
         IN (IF enc = "utf-8" /\ c >= 128
             THEN <<192 + (c \div 64), 128 + (c % 64)>>
             ELSE <<c>>) \o Encode(Tail(text), enc)

RIFF == <<82, 73, 70, 70>>
WAVE == <<87, 65, 86, 69>>
LIST == <<76, 73, 83, 84>>
INFO == <<73, 78, 70, 79>>
INAM == <<73, 78, 65, 77>>
IART == <<73, 65, 82, 84>>
IPRD == <<73, 80, 82, 68>>
ITRK == <<73, 84, 82, 75>>
IDIS == <<73, 68, 73, 83>>

\* lines 41-47; text is an optional text
_make_subchunk(tag, text, cue_encoding) ==
    IF ~Truthy(text) THEN <<>>
    ELSE LET data == Encode(Val(text), cue_encoding) \o <<0>>
             size == Len(data)
             pad == IF size % 2 = 1 THEN <<0>> ELSE <<>>
         IN Encode(tag, "ascii") \o pack_I(size) \o data \o pad

\* variant: the walk drops a chunk that runs past the end of the buffer
RECURSIVE kept_chunks_DropTruncated(_, _)
kept_chunks_DropTruncated(data, pos) ==
    IF pos + 8 > Len(data) THEN <<>>
    ELSE LET cid == Slice(data, pos, pos + 4)
             csz == unpack_I(Slice(data, pos + 4, pos + 8))
             cdata_start == pos + 8
             cdata_end == cdata_start + csz
         IN IF cdata_end > Len(data)
            THEN <<>>
            ELSE LET chunk_bytes == Slice(data, pos, cdata_end)
                     pad == IF csz % 2 = 1 THEN <<0>> ELSE <<>>
                     rest == kept_chunks_DropTruncated(data, cdata_end + (IF csz % 2 = 1 THEN 1 ELSE 0))
                 IN IF cid = LIST /\ Slice(data, cdata_start, cdata_start + 4) = INFO
                    THEN rest
                    ELSE <<chunk_bytes \o pad>> \o rest

\* the chunk walk of lines 62-81: the list kept_chunks from offset pos on
RECURSIVE kept_chunks(_, _)
kept_chunks(data, pos) ==
    IF pos + 8 > Len(data) THEN <<>>
    ELSE LET cid == Slice(data, pos, pos + 4)
             csz == unpack_I(Slice(data, pos + 4, pos + 8))
             cdata_start == pos + 8
             cdata_end == cdata_start + csz
         IN IF cdata_end > Len(data)
            THEN <<Slice(data, pos, Len(data))>>
            ELSE LET chunk_bytes == Slice(data, pos, cdata_end)
                     pad == IF csz % 2 = 1 THEN <<0>> ELSE <<>>
                     rest == kept_chunks(data, cdata_end + (IF csz % 2 = 1 THEN 1 ELSE 0))
                 IN IF cid = LIST /\ Slice(data, cdata_start, cdata_start + 4) = INFO
                    THEN rest
                    ELSE <<chunk_bytes \o pad>> \o rest

\* lines 84-94: the non-empty sub-chunks of the call's tags
info_parts(t) ==
    <<_make_subchunk(INAM, t.title, t.cue_encoding),
      _make_subchunk(IART, t.artist, t.cue_encoding),
      _make_subchunk(IPRD, t.album, t.cue_encoding)>>
    \o (IF t.track # None THEN <<_make_subchunk(ITRK, Some(Str(Val(t.track))), t.cue_encoding)>> ELSE <<>>)
    \o (IF t.disc # None THEN <<_make_subchunk(IDIS, Some(Str(Val(t.disc))), t.cue_encoding)>> ELSE <<>>)

info_body(t) == INFO \o Concat(info_parts(t))

\* lines 95-103
new_list_chunk(t) ==
    IF Len(info_body(t)) = 4 THEN <<>>
    ELSE LET list_size == Len(info_body(t))
         IN LIST \o pack_I(list_size) \o info_body(t)
            \o (IF list_size % 2 = 1 THEN <<0>> ELSE <<>>)

\* variant: the size field counts the 8 header bytes too
new_riff_size_WithHeader(body) == Len(body) + 8

\* line 107
new_riff_size(body) == Len(body)

\* lines 106-108
new_data(data, t) ==
    LET body == WAVE \o Concat(kept_chunks(data, 12)) \o new_list_chunk(t)
    IN RIFF \o pack_I(new_riff_size(body)) \o body

\* variant: a track or disc number alone makes the call go on
EarlyReturn_AllFields(t) ==
    RiffShortCircuit(t.title, t.artist, t.album) /\ t.track = None /\ t.disc = None

\* line 52
EarlyReturn(t) == RiffShortCircuit(t.title, t.artist, t.album)

\* variant: only the container magic is looked at
BadMagic_OnlyRiff(data) == Slice(data, 0, 4) # RIFF

\* line 58
BadMagic(data) == Slice(data, 0, 4) # RIFF \/ Slice(data, 8, 12) # WAVE

\* ---- input files
ChunkPool ==
    { <<102, 109, 116, 32>> \o pack_I(2) \o <<1, 0>>,               \* "fmt ", even
      <<100, 97, 116, 97>> \o pack_I(3) \o <<9, 8, 7>> \o <<0>>,    \* "data", odd, pad 0
      <<99, 117, 101, 32>> \o pack_I(1) \o <<5>> \o <<255>>,        \* "cue ", odd, pad 255
      LIST \o pack_I(14) \o INFO \o INAM \o pack_I(2) \o <<79, 0>>, \* LIST/INFO with INAM "O"
      LIST \o pack_I(4) \o <<97, 100, 116, 108>> }                  \* LIST/adtl

\* what may follow the last whole chunk
Tails ==
    { <<>>,
      <<100, 97, 116, 97>> \o pack_I(10) \o <<1, 2>>,               \* truncated "data"
      LIST \o pack_I(40) \o INFO \o <<73>>,                         \* truncated LIST/INFO
      <<7, 7, 7>> }                                                 \* less than a chunk header

WavFiles ==
    { RIFF \o pack_I(sz) \o WAVE \o Concat(cs) \o t :
        sz \in {0}, cs \in SeqsUpTo(ChunkPool, MaxChunks), t \in Tails }

BadFiles ==
    { <<>>, RIFF, RIFF \o pack_I(4) \o <<65, 86, 73, 32>>,
      <<82, 73, 70, 88>> \o pack_I(4) \o WAVE \o <<102, 109, 116, 32>> \o pack_I(0) }

InputFiles == WavFiles \cup BadFiles

Titles == {None, Some(<<>>), Some(<<65, 233>>)}
TagSets ==
    [title : Titles, artist : {None, Some(<<80>>)}, album : {None, Some(<<76, 112>>)},
     track : {None, Some(0), Some(12)}, disc : {None, Some(2)},
     cue_encoding : {"utf-8", "latin-1"}]

splitVars == <<args, pc, i, futures, tr_cmds, pending_wav, k, tag_steps, log, ret>>

RiffInit ==
    /\ disk \in InputFiles
    /\ tags \in TagSets
    /\ tmp = None
    /\ rpc = "call"
    /\ before = disk
    /\ calls = 1
    /\ outs = <<>>
    /\ msf = <<0, 0, 0>> /\ ndigits = 2 /\ secs = None /\ last_secs = None
    /\ format = "wav" /\ no_metadata = FALSE /\ jobs = 1 /\ track_offset = 0
    /\ audio_file = None /\ write_disc = FALSE /\ disc_number = None
    /\ cd = [cdtext |-> [performer |-> None, title |-> None, date |-> None], tracks |-> <<>>]
    /\ pc = "done" /\ i = 0 /\ futures = <<>> /\ tr_cmds = <<>> /\ pending_wav = <<>>
    /\ k = 1 /\ tag_steps = <<>> /\ log = <<>> /\ ret = "True"

\* line 52-53: nothing to write
RiffEarlyReturn ==
    /\ rpc = "call"
    /\ EarlyReturn(tags)
    /\ rpc' = "early"
    /\ UNCHANGED <<timeVars, splitVars, disk, tmp, tags, before, calls, outs>>

\* lines 55-59: the file is read and is not a WAV file
RiffBadMagic ==
    /\ rpc = "call"
    /\ ~EarlyReturn(tags)
    /\ BadMagic(disk)
    /\ rpc' = "raised"
    /\ UNCHANGED <<timeVars, splitVars, disk, tmp, tags, before, calls, outs>>

\* lines 55-112: the file is read, rebuilt and written to the temporary file
RiffWriteTmp ==
    /\ rpc = "call"
    /\ ~EarlyReturn(tags)
    /\ ~BadMagic(disk)
    /\ tmp' = Some(new_data(disk, tags))
    /\ rpc' = "replace"
    /\ UNCHANGED <<timeVars, splitVars, disk, tags, before, calls, outs>>

\* lines 113-114: os.replace succeeds
RiffReplace ==
    /\ rpc = "replace"
    /\ disk' = Val(tmp)
    /\ tmp' = None
    /\ rpc' = "replaced"
    /\ outs' = Append(outs, Val(tmp))
    /\ UNCHANGED <<timeVars, splitVars, tags, before, calls>>

\* variant: the temporary file is left behind
RiffReplaceFails_NoCleanup ==
    /\ rpc = "replace"
    /\ rpc' = "replace_failed"
    /\ log' = Append(log, [at |-> "replace", job |-> 0])
    /\ UNCHANGED <<timeVars, args, pc, i, futures, tr_cmds, pending_wav, k, tag_steps, ret,
                   disk, tmp, tags, before, calls, outs>>

\* lines 115-119: os.replace raises; the traceback is printed, the temporary file
\* is removed and the call returns
RiffReplaceFails ==
    /\ rpc = "replace"
    /\ tmp' = None
    /\ rpc' = "replace_failed"
    /\ log' = Append(log, [at |-> "replace", job |-> 0])
    /\ UNCHANGED <<timeVars, args, pc, i, futures, tr_cmds, pending_wav, k, tag_steps, ret,
                   disk, tags, before, calls, outs>>

\* the same call is made again on the file as it now is
RiffCallAgain ==
    /\ rpc \in {"early", "replaced", "replace_failed"}
    /\ calls < MaxCalls
    /\ calls' = calls + 1
    /\ before' = disk
    /\ rpc' = "call"
    /\ UNCHANGED <<timeVars, splitVars, disk, tmp, tags, outs>>

RiffNext ==
    \/ RiffEarlyReturn
    \/ RiffBadMagic
    \/ RiffWriteTmp
    \/ RiffReplace
    \/ RiffReplaceFails
    \/ RiffCallAgain

RiffSpec == RiffInit /\ [][RiffNext]_vars

\* ==================================================================== msf2seconds
\* line 22
SecondsPerMinute == 60
FramesPerSecond == 75

RECURSIVE Pow10(_)
Pow10(n) == IF n = 0 THEN 1 ELSE 10 * Pow10(n - 1)

\* variant: the fraction is cut off
RoundDiv_Floor(a, b) == a \div b

\* round(): the nearest integer to a / b, a tie going to the even one
RoundDiv(a, b) ==
    LET q == a \div b
        r == a % b
    IN IF 2 * r > b \/ (2 * r = b /\ q % 2 = 1) THEN q + 1 ELSE q

\* line 22: round(msf[0] * 60 + msf[1] + msf[2] / 75, ndigits), as a count of
\* units of 10^-nd seconds. The float sum is the double next to the exact
\* value, and no exact value lies on a rounding tie, so round() lands on the
\* multiple of 10^-nd nearest to the exact value.
msf2seconds(t, nd) ==
    RoundDiv(((t[1] * SecondsPerMinute + t[2]) * FramesPerSecond + t[3]) * Pow10(nd),
             FramesPerSecond)

Positions == (0..MaxMinutes) \X (0..(SecondsPerMinute - 1)) \X (0..(FramesPerSecond - 1))

\* the frame position one frame later
NextPosition(t) ==
    IF t[3] + 1 < FramesPerSecond THEN <<t[1], t[2], t[3] + 1>>
    ELSE IF t[2] + 1 < SecondsPerMinute THEN <<t[1], t[2] + 1, 0>>
    ELSE <<t[1] + 1, 0, 0>>

TimeInit ==
    /\ msf \in Positions
    /\ ndigits \in 0..MaxDigits
    /\ secs = None
    /\ last_secs = None
    /\ disk = <<>> /\ tmp = None /\ tags = <<>> /\ rpc = "idle" /\ before = <<>>
    /\ calls = 0 /\ outs = <<>>
    /\ format = "wav" /\ no_metadata = FALSE /\ jobs = 1 /\ track_offset = 0
    /\ audio_file = None /\ write_disc = FALSE /\ disc_number = None
    /\ cd = [cdtext |-> [performer |-> None, title |-> None, date |-> None], tracks |-> <<>>]
    /\ pc = "done" /\ i = 0 /\ futures = <<>> /\ tr_cmds = <<>> /\ pending_wav = <<>>
    /\ k = 1 /\ tag_steps = <<>> /\ log = <<>> /\ ret = "True"

\* msf2seconds(msf, ndigits) is called and returns
TimeCall ==
    /\ secs = None
    /\ secs' = Some(msf2seconds(msf, ndigits))
    /\ UNCHANGED <<msf, ndigits, last_secs, splitVars, riffVars>>

\* the next call is for the position one frame later
TimeNextFrame ==
    /\ secs # None
    /\ NextPosition(msf) \in Positions
    /\ msf' = NextPosition(msf)
    /\ last_secs' = secs
    /\ secs' = None
    /\ UNCHANGED <<ndigits, splitVars, riffVars>>

TimeNext ==
    \/ TimeCall
    \/ TimeNextFrame

TimeSpec == TimeInit /\ [][TimeNext]_vars

\* ====================================================================== claims
PlanErrors == {"ValueError", "FileNotFoundError"}
Ended == pc \in {"done", "raised"}
PlanBuilt == pc # "loop" /\ ret \notin PlanErrors
AllResolved == \A j \in 1..Len(futures) : futures[j].state \in {"Succeeded", "Failed"}
StepsOf(j) == {n \in 1..Len(tag_steps) : tag_steps[n].job = j}
StepsOn(path) == {n \in 1..Len(tag_steps) : tag_steps[n].path = path}
DistinctTrackNumbers ==
    \A a, b \in 1..Len(cd.tracks) :
        a # b => cd.tracks[a].track_number # cd.tracks[b].track_number

\* C1: no deferred tag step has begun while a submitted encode job is still
\* Queued or Running; the first tag step comes after the last job outcome.
C1_TagAfterAllOutcomes == tag_steps # <<>> => AllResolved

C1_Witness ==
    /\ Len(tag_steps) >= 1
    /\ Len(futures) >= 2
    /\ \E j \in 1..Len(futures) : futures[j].state = "Failed"

\* C2: over tracks with pairwise distinct track numbers, every output file is
\* tagged at most once, and only when the job that produced it ended with
\* exit status 0; a failed or raising job is never followed by a tag step on
\* its output path.
C2_TagOnceOnSuccess ==
    DistinctTrackNumbers =>
        /\ \A j \in 1..Len(futures) : Cardinality(StepsOn(tr_cmds[j].output)) <= 1
        /\ \A j \in 1..Len(futures) :
              StepsOn(tr_cmds[j].output) # {} =>
                  futures[j].state = "Succeeded" /\ futures[j].returncode = 0

C2_Witness ==
    /\ DistinctTrackNumbers
    /\ pc = "done"
    /\ Len(futures) = 2
    /\ futures[1].state = "Failed"
    /\ futures[2].state = "Succeeded"
    /\ Cardinality(StepsOn(tr_cmds[2].output)) = 1
    /\ StepsOn(tr_cmds[1].output) = {}

\* C3: whenever the plan was built without error, split_cue ends by returning
\* true if every job's outcome is success and false otherwise, also when a
\* job's encode invocation raised.
C3_VerdictIffAllSucceeded ==
    (Ended /\ PlanBuilt) =>
        ret = IF \A j \in 1..Len(futures) : futures[j].state = "Succeeded"
              THEN "True" ELSE "False"

\* C4: a run that ends with a plan error has submitted no encode job at all.
C4_NoDispatchOnPlanError == ret \in PlanErrors => futures = <<>>

\* C5: a job moves only Queued -> Running -> {Succeeded, Failed}, and the number
\* of Running jobs never exceeds the pool width: 1 for wav (with or without
\* metadata), the requested job count otherwise.
C5_Transitions ==
    /\ Len(futures') >= Len(futures)
    /\ \A j \in 1..Len(futures') :
          IF j > Len(futures) THEN futures'[j].state = "Queued"
          ELSE \/ futures'[j].state = futures[j].state
               \/ futures[j].state = "Queued" /\ futures'[j].state = "Running"
               \/ futures[j].state = "Running" /\ futures'[j].state \in {"Succeeded", "Failed"}

C5_PoolBound ==
    /\ [](RunningCount <= IF format = "wav" THEN 1 ELSE jobs)
    /\ [][C5_Transitions]_vars

C5_Witness ==
    /\ format = "wav"
    /\ no_metadata
    /\ jobs = 2
    /\ RunningCount = 1
    /\ \E j \in 1..Len(futures) : futures[j].state = "Queued"

\* C6: with a plan built without error all N jobs are submitted before any
\* outcome is awaited, a job's outcome never changes once produced, a queued
\* job is never dropped, and (every encode invocation terminating) split_cue
\* passes the barrier with every job resolved and terminates.
C6_OutcomeStable ==
    \A j \in 1..Len(futures) :
        /\ futures[j].state \in {"Succeeded", "Failed"} => futures'[j] = futures[j]
        /\ futures[j].state = "Queued" => futures'[j].state \in {"Queued", "Running"}

C6_AllJobsResolve ==
    /\ [](pc \notin {"loop"} /\ ret \notin PlanErrors => Len(futures) = Len(cd.tracks))
    /\ [][C6_OutcomeStable]_vars
    /\ (pc = "shutdown" ~> (Ended /\ AllResolved /\ Len(futures) = Len(cd.tracks)))

C6_Witness ==
    /\ Ended
    /\ Len(futures) = 2
    /\ futures[1].state = "Failed"
    /\ futures[2].state = "Succeeded"

\* C7: wav with metadata, N tracks: with exactly one failing encode job the
\* verdict is false, no tag step touches the failing track's output and every
\* other track's output gets its tag step with its own values; with all N
\* succeeding the verdict is true and all N outputs are tagged.
OwnTagStep(j) ==
    \E n \in 1..Len(tag_steps) :
        /\ tag_steps[n].path = tr_cmds[j].output
        /\ tag_steps[n].title = cd.tracks[j].title
        /\ tag_steps[n].artist = cd.cdtext.performer
        /\ tag_steps[n].album = cd.cdtext.title
        /\ tag_steps[n].track = Some(cd.tracks[j].track_number + track_offset)

C7_SingleFailure ==
    (Ended /\ PlanBuilt /\ format = "wav" /\ ~no_metadata) =>
        LET failing == {j \in 1..Len(futures) : futures[j].state # "Succeeded"}
        IN /\ Cardinality(failing) = 1 =>
                /\ ret = "False"
                /\ \A j \in failing : StepsOn(tr_cmds[j].output) = {}
                /\ \A j \in 1..Len(futures) : j \notin failing => OwnTagStep(j)
           /\ failing = {} =>
                /\ ret = "True"
                /\ \A j \in 1..Len(futures) : OwnTagStep(j)

\* C8: a tagging failure is caught: every retained pair of a succeeded job
\* still gets its tag step, and split_cue ends as the encode outcomes alone
\* decide.
C8_TagFailureIsolated ==
    (Ended /\ PlanBuilt) =>
        /\ ret = AllResult(futures)
        /\ \A n \in 1..Len(pending_wav) :
              futures[pending_wav[n].fut].state = "Succeeded" =>
                  Cardinality(StepsOf(pending_wav[n].fut)) = 1

C8_Witness ==
    /\ pc = "done"
    /\ ret = "True"
    /\ Len(tag_steps) = 2
    /\ tag_steps[1].riff = "raised"
    /\ tag_steps[2].id3 = "saved"

\* ---- reading a container back, as a RIFF reader does
\* the chunk sequence from offset pos on ends exactly at the end of the buffer
RECURSIVE WholeChunks(_, _)
WholeChunks(data, pos) ==
    IF pos = Len(data) THEN TRUE
    ELSE IF pos + 8 > Len(data) THEN FALSE
    ELSE LET csz == unpack_I(Slice(data, pos + 4, pos + 8))
             nxt == pos + 8 + csz + (csz % 2)
         IN IF pos + 8 + csz > Len(data) THEN FALSE
            ELSE IF nxt > Len(data) THEN pos + 8 + csz = Len(data)
            ELSE WholeChunks(data, nxt)

WellFormed(data) == ~BadMagic(data) /\ WholeChunks(data, 12)

RECURSIVE Decode(_, _)
Decode(bytes, enc) ==
    IF bytes = <<>> THEN <<>>
    ELSE IF enc = "utf-8" /\ Head(bytes) >= 192
         THEN <<(Head(bytes) - 192) * 64 + (bytes[2] - 128)>> \o Decode(Tail(Tail(bytes)), enc)
         ELSE <<Head(bytes)>> \o Decode(Tail(bytes), enc)

\* the <<tag, text>> pairs of the sub-chunks of an INFO list body
RECURSIVE SubChunks(_, _)
SubChunks(body, enc) ==
    IF Len(body) < 8 THEN <<>>
    ELSE LET sz == unpack_I(Slice(body, 4, 8))
             txt == Slice(body, 8, 8 + sz - 1)
         IN <<<<Slice(body, 0, 4), Decode(txt, enc)>>>>
            \o SubChunks(Slice(body, 8 + sz + (sz % 2), Len(body)), enc)

\* one entry per LIST/INFO chunk of the container: its sub-chunks
RECURSIVE InfoChunks(_, _, _)
InfoChunks(data, pos, enc) ==
    IF pos + 8 > Len(data) THEN <<>>
    ELSE LET csz == unpack_I(Slice(data, pos + 4, pos + 8))
             rest == InfoChunks(data, pos + 8 + csz + (csz % 2), enc)
         IN IF Slice(data, pos, pos + 4) = LIST /\ Slice(data, pos + 8, pos + 12) = INFO
            THEN <<SubChunks(Slice(data, pos + 12, pos + 8 + csz), enc)>> \o rest
            ELSE rest

\* the <<tag, text>> pairs of the non-empty fields of a tag set
Fields(t) ==
    (IF Truthy(t.title) THEN <<<<INAM, Val(t.title)>>>> ELSE <<>>)
    \o (IF Truthy(t.artist) THEN <<<<IART, Val(t.artist)>>>> ELSE <<>>)
    \o (IF Truthy(t.album) THEN <<<<IPRD, Val(t.album)>>>> ELSE <<>>)
    \o (IF t.track # None THEN <<<<ITRK, Str(Val(t.track))>>>> ELSE <<>>)
    \o (IF t.disc # None THEN <<<<IDIS, Str(Val(t.disc))>>>> ELSE <<>>)

SizeFieldOK(d) == Len(d) >= 8 /\ unpack_I(Slice(d, 4, 8)) = Len(d) - 8

\* C9: whenever _write_wav_riff performs a rewrite, the little-endian size
\* field at bytes 4..8 of the written file is the file's length minus 8.
C9_SizeField ==
    /\ tmp # None => SizeFieldOK(Val(tmp))
    /\ rpc = "replaced" => SizeFieldOK(disk)

C9_Witness ==
    /\ rpc = "replaced"
    /\ ~WholeChunks(before, 12)
    /\ Len(InfoChunks(before, 12, tags.cue_encoding)) >= 2
    /\ ~SizeFieldOK(before)
    /\ disk # before

\* C10: rewriting a valid container with a tag set T that has a non-empty
\* field among title, artist, album, track and disc leaves exactly one
\* LIST/INFO chunk, holding exactly the sub-chunks of T's non-empty fields.
C10_RoundTrip ==
    (rpc \in {"early", "replaced"} /\ WellFormed(before) /\ Fields(tags) # <<>>) =>
        InfoChunks(disk, 12, tags.cue_encoding) = <<Fields(tags)>>

\* the whole chunks of a container from offset pos on, each with the pad byte
\* it has in the container
RECURSIVE RawChunks(_, _)
RawChunks(data, pos) ==
    IF pos + 8 > Len(data) THEN <<>>
    ELSE LET csz == unpack_I(Slice(data, pos + 4, pos + 8))
             nxt == pos + 8 + csz + (csz % 2)
         IN <<Slice(data, pos, nxt)>> \o RawChunks(data, nxt)

IsInfoChunk(c) == Slice(c, 0, 4) = LIST /\ Slice(c, 8, 12) = INFO
NotInfoChunk(c) == ~IsInfoChunk(c)

\* C11: in a rewrite every input chunk that is not a LIST/INFO chunk is in the
\* output byte for byte, its own pad byte included, in the input's order; the
\* input's LIST/INFO chunks are gone; the new metadata chunk, if any, is last.
C11_ChunksVerbatim ==
    (rpc = "replaced" /\ WellFormed(before)) =>
        LET inp == SelectSeq(RawChunks(before, 12), NotInfoChunk)
            out == RawChunks(disk, 12)
        IN /\ Len(out) \in {Len(inp), Len(inp) + 1}
           /\ SubSeq(out, 1, Len(inp)) = inp
           /\ Len(out) = Len(inp) + 1 => IsInfoChunk(out[Len(out)])

\* C12: for every input accepted by the magic check and every tag set, a
\* second rewrite with the same tag set leaves the bytes of the first rewrite.
C12_Idempotent == \A n \in 2..Len(outs) : outs[n] = outs[n - 1]

C14_AtomicReplace ==
    [][/\ disk' = disk \/ (tmp # None /\ disk' = Val(tmp) /\ disk' = new_data(before, tags))
       /\ rpc' = "replace_failed" =>
            /\ rpc = "replace"
            /\ disk' = before
            /\ tmp' = None
            /\ Len(log') = Len(log) + 1
            /\ log'[Len(log')].at = "replace"]_vars

C14_Witness ==
    /\ rpc = "replace_failed"
    /\ disk = before
    /\ tmp = None
    /\ log # <<>>
    /\ calls = 2
    /\ outs # <<>>

\* C15: for every job that ended with a non-zero exit status split_cue has
\* emitted a report of its own for that job by the time it returns, and has
\* gone on to collect the outcomes of the other jobs.
C15_FailureReported ==
    pc = "done" =>
        \A j \in 1..Len(futures) :
            (futures[j].state = "Failed" /\ ~futures[j].exception) =>
                \E n \in 1..Len(log) : log[n].job = j

\* the int a decimal text stands for
RECURSIVE NatOf(_)
NatOf(s) == IF s = <<>> THEN 0 ELSE NatOf(SubSeq(s, 1, Len(s) - 1)) * 10 + (s[Len(s)] - 48)
IntOf(s) == IF s # <<>> /\ s[1] = 45 THEN 0 - NatOf(Tail(s)) ELSE NatOf(s)

First(s, c) == CHOOSE p \in 1..Len(s) : s[p] = c /\ \A q \in 1..(p - 1) : s[q] # c
Last(s, c) == CHOOSE p \in 1..Len(s) : s[p] = c /\ \A q \in (p + 1)..Len(s) : s[q] # c

\* the track number text in an output path: "./NN - title.ext", or
\* "./stem_NN.ext" when metadata is suppressed
FileNumber(p) ==
    LET name == SubSeq(p, Last(p, 47) + 1, Len(p))
    IN IF no_metadata
       THEN SubSeq(name, Last(name, 95) + 1, Last(name, 46) - 1)
       ELSE SubSeq(name, 1, First(name, 32) - 1)

ValuesOf(pairs, key) == {pairs[n][2] : n \in {m \in 1..Len(pairs) : pairs[m][1] = key}}

\* the sub-chunks _write_wav_riff builds for the tags of a tag step
StepInfo(st) ==
    SubChunks(Slice(info_body([title |-> st.title, artist |-> st.artist, album |-> st.album,
                               track |-> st.track, disc |-> st.disc, cue_encoding |-> "utf-8"]),
                    4, 4096), "utf-8")

\* C16: the applied track number of every submitted job is the track's raw
\* number plus the offset, and that one number is the number in the output
\* file name and in every tag value for the track: the inline track metadata
\* of mp3/flac, and for wav the retained tuple, the ITRK sub-chunk and the
\* TRCK frame.
C16_AppliedTrackNumber ==
    \A j \in 1..Len(tr_cmds) :
        LET applied == cd.tracks[j].track_number + track_offset
        IN /\ IntOf(FileNumber(tr_cmds[j].output)) = applied
           /\ ValuesOf(tr_cmds[j].metadata, "track") =
                (IF format # "wav" /\ ~no_metadata THEN {Str(applied)} ELSE {})
           /\ \A n \in 1..Len(pending_wav) :
                pending_wav[n].fut = j => pending_wav[n].track = Some(applied)
           /\ \A n \in StepsOf(j) :
                /\ ValuesOf(tag_steps[n].frames, "TRCK") = {Str(applied)}
                /\ tag_steps[n].riff = "written" =>
                        ValuesOf(StepInfo(tag_steps[n]), ITRK) = {Str(applied)}

C16_Witness ==
    /\ track_offset = 1
    /\ Len(tag_steps) = 2
    /\ tag_steps[1].riff = "written"
    /\ tag_steps[2].riff = "written"
    /\ FileNumber(tag_steps[1].path) = <<48, 50>>
    /\ FileNumber(tag_steps[2].path) = <<48, 51>>

Retained(j) == \E n \in 1..Len(pending_wav) : pending_wav[n].fut = j
Inline(j) == tr_cmds[j].metadata # <<>>

\* C17: a job has a retained (job, tags) tuple exactly when the format is wav
\* and metadata is written, and inline metadata arguments exactly when the
\* format is not wav and metadata is written; no job has both, and with
\* metadata suppressed no job has either and no tag step is performed.
C17_DeferredXorInline ==
    /\ \A j \in 1..Len(tr_cmds) :
        /\ Retained(j) <=> (format = "wav" /\ ~no_metadata)
        /\ Inline(j) <=> (format # "wav" /\ ~no_metadata)
        /\ ~(Retained(j) /\ Inline(j))
    /\ \A n \in 1..Len(pending_wav) : pending_wav[n].fut \in 1..Len(tr_cmds)
    /\ no_metadata => pending_wav = <<>> /\ tag_steps = <<>>
    /\ format # "wav" => tag_steps = <<>>

C17_Witness ==
    /\ format = "wav"
    /\ ~no_metadata
    /\ Len(tr_cmds) = 2
    /\ Retained(1) /\ Retained(2)
    /\ ~Inline(1) /\ ~Inline(2)
    /\ Len(tag_steps) = 2

TotalFrames(t) == (t[1] * SecondsPerMinute + t[2]) * FramesPerSecond + t[3]
Abs(x) == IF x < 0 THEN 0 - x ELSE x

\* C18: for every position (m, s, f) with 0 <= s < 60 and 0 <= f < 75 the
\* result of msf2seconds is m*60 + s + f/75 rounded to ndigits decimals: the
\* multiple of 10^-ndigits within half a unit of it; and the result for a
\* position is not below the result for the position one frame earlier.
C18_RoundedAndMonotonic ==
    secs # None =>
        /\ 2 * Abs(Val(secs) * FramesPerSecond - TotalFrames(msf) * Pow10(ndigits))
                <= FramesPerSecond
        /\ last_secs # None => Val(last_secs) <= Val(secs)

C18_Witness ==
    /\ msf = <<1, 10, 38>>
    /\ ndigits = 2
    /\ secs = Some(7051)
    /\ last_secs = Some(7049)

\* the offset of the first chunk from pos on whose declared size runs past the
\* end of the buffer, -1 when there is none
RECURSIVE TruncatedAt(_, _)
TruncatedAt(data, pos) ==
    IF pos + 8 > Len(data) THEN 0 - 1
    ELSE LET csz == unpack_I(Slice(data, pos + 4, pos + 8))
         IN IF pos + 8 + csz > Len(data) THEN pos
            ELSE TruncatedAt(data, pos + 8 + csz + (csz % 2))

EndsWith(d, suffix) ==
    Len(d) >= Len(suffix) /\ SubSeq(d, Len(d) - Len(suffix) + 1, Len(d)) = suffix

\* C19: when a chunk's declared size runs past the end of the buffer, a
\* LIST/INFO chunk included, the walk raises nothing and the rewrite
\* completes: the written file ends with the whole remainder of the input
\* from that chunk's header on, followed by the new metadata chunk.
C19_TruncatedKept ==
    LET at == TruncatedAt(before, 12)
        valid == Slice(before, 0, 4) = RIFF /\ Slice(before, 8, 12) = WAVE
        remainder == Slice(before, at, Len(before))
    IN (valid /\ at >= 0) =>
        /\ rpc # "raised"
        /\ tmp # None =>
            /\ new_list_chunk(tags) # <<>>
            /\ EndsWith(Val(tmp), remainder \o new_list_chunk(tags))
        /\ rpc = "replaced" =>
            /\ EndsWith(disk, remainder \o new_list_chunk(tags))
            /\ Len(disk) >= 12 + Len(remainder) + Len(new_list_chunk(tags))

C19_Witness ==
    /\ rpc = "replaced"
    /\ calls = 1
    /\ TruncatedAt(before, 12) > 12
    /\ IsInfoChunk(Slice(before, TruncatedAt(before, 12), Len(before)))
    /\ disk # before

EmptyInfoChunk == LIST \o pack_I(4) \o INFO

====
